---- MODULE Spec2Model ----
(***************************************************************************)
(* A model of npbg/gl/camera.py: the first-person PositionalCamera and its *)
(* CollisionDetector.                                                      *)
(*                                                                         *)
(* Numbers.  Lengths, speeds and time steps are integers.  Angles are      *)
(* counted in quarter turns (pi/2), the only angles whose sine and cosine  *)
(* are rational, so that rotation matrices are exact integer matrices;     *)
(* motion is therefore driven with the pointer coordinates for which yaw   *)
(* and pitch are whole quarter turns of the current viewport.              *)
(***************************************************************************)
EXTENDS Integers, Sequences, FiniteSets, TLC

VARIABLES
    self,   \* the PositionalCamera object: its fields
    args,   \* the scene, pose and speed __init__ was called with
    last,   \* the latest call on the object: [op, ret]
    log     \* an observer of the key events of one logical direction

vars == <<self, args, last, log>>

----------------------------------------------------------------------------
(* Bounds and input sets *)

\* pose(dt) is explored while |x|+|y|+|z| of the resulting translation stays
\* within MaxDist (the translation itself is unbounded in the code).
MaxDist == 2

\* the observer counts at most MaxEvents presses and MaxEvents releases of
\* the direction it follows
MaxEvents == 3

Speeds == {2}
Dts == {0, 1}
Sizes == {<<0, 0>>, <<4, 2>>, <<8, 4>>}
PointXs == 0 .. 2
PointYs == 0 .. 1
SceneKinds == {"empty", "dense", "wall"}

----------------------------------------------------------------------------
(* glfw key codes *)

GLFW_KEY_UNKNOWN == -1
GLFW_KEY_SPACE == 32
GLFW_KEY_A == 65
GLFW_KEY_D == 68
GLFW_KEY_Q == 81
GLFW_KEY_S == 83
GLFW_KEY_W == 87
GLFW_KEY_LEFT_SHIFT == 340

\* the codes an input source delivers: the six bound ones, the unknown
\* sentinel and an unbound one
Codes ==
    {GLFW_KEY_W, GLFW_KEY_A, GLFW_KEY_S, GLFW_KEY_D, GLFW_KEY_SPACE,
     GLFW_KEY_LEFT_SHIFT, GLFW_KEY_UNKNOWN, GLFW_KEY_Q}

----------------------------------------------------------------------------
(* numpy vectors and matrices *)

VecAdd(a, b) == <<a[1] + b[1], a[2] + b[2], a[3] + b[3]>>
VecSub(a, b) == <<a[1] - b[1], a[2] - b[2], a[3] - b[3]>>
VecScale(a, k) == <<a[1] * k, a[2] * k, a[3] * k>>
Zero3 == <<0, 0, 0>>

\* M @ v
MatVec(M, v) ==
    [i \in 1..3 |-> M[i][1] * v[1] + M[i][2] * v[2] + M[i][3] * v[3]]

\* A @ B
MatMul(A, B) ==
    [i \in 1..3 |->
        [j \in 1..3 |-> A[i][1] * B[1][j] + A[i][2] * B[2][j] + A[i][3] * B[3][j]]]

Identity3 == <<<<1, 0, 0>>, <<0, 1, 0>>, <<0, 0, 1>>>>

Abs(n) == IF n < 0 THEN -n ELSE n

\* cosine and sine of q quarter turns
Cos4(q) == <<1, 0, -1, 0>>[(q % 4) + 1]
Sin4(q) == <<0, 1, 0, -1>>[(q % 4) + 1]

\* scipy Rotation.from_rotvec([0, a, 0]).as_matrix(), a = q quarter turns
RotY(q) == <<<<Cos4(q), 0, Sin4(q)>>, <<0, 1, 0>>, <<-Sin4(q), 0, Cos4(q)>>>>

\* scipy Rotation.from_rotvec([a, 0, 0]).as_matrix(), a = q quarter turns
RotX(q) == <<<<1, 0, 0>>, <<0, Cos4(q), -Sin4(q)>>, <<0, Sin4(q), Cos4(q)>>>>

----------------------------------------------------------------------------
(* CollisionDetector *)

\* radius = 0.05 = RadiusNum / RadiusDen
RadiusNum == 1
RadiusDen == 20
Threshold == 1000

\* math.ceil(a / b) for a >= 0, b > 0
CeilDiv(a, b) == (a + b - 1) \div b

\* The scene handed to CollisionDetector.__init__: the number of points of
\* the point cloud that a sphere of the probe radius at p touches.
\*   empty: no geometry near the camera;
\*   dense: geometry everywhere;
\*   wall:  a dense wall at z >= 2, a sparse cloud at x >= 2, nothing else;
\*   ramp:  a cloud that thickens by one point per unit of x, with 48
\*          points in reach at the origin.
SceneContacts(cd, p) ==
    CASE cd = "empty" -> 0
      [] cd = "dense" -> 60
      [] cd = "wall" -> IF p[3] >= 2 THEN 60 ELSE IF p[1] >= 2 THEN 49 ELSE 0
      [] cd = "ramp" -> IF p[1] >= -48 THEN 48 + p[1] ELSE 0

Min(a, b) == IF a < b THEN a ELSE b

\* fcl.collide(model, sphere, CollisionRequest(num_max_contacts = cap)):
\* the number of contacts found, at most cap
collide(cd, p, num_max_contacts) == Min(SceneContacts(cd, p), num_max_contacts)

\* mutant: the contact cap is one short of ceil(threshold * radius)
collision_lowcap(cd, x, dx) ==
    LET num_collisions ==
            collide(cd, VecAdd(x, dx), CeilDiv(Threshold * RadiusNum, RadiusDen) - 1)
    IN  num_collisions * RadiusDen >= Threshold * RadiusNum

\* CollisionDetector.collision(x, dx)
collision(cd, x, dx) ==
    LET num_collisions ==
            collide(cd, VecAdd(x, dx), CeilDiv(Threshold * RadiusNum, RadiusDen))
    IN  \* num_collisions / radius >= threshold
        num_collisions * RadiusDen >= Threshold * RadiusNum

----------------------------------------------------------------------------
(* PositionalCamera *)

\* self._velocity_delta
velocity_delta ==
    (GLFW_KEY_W :> <<0, 0, -1>>) @@ (GLFW_KEY_A :> <<-1, 0, 0>>) @@
    (GLFW_KEY_S :> <<0, 0, 1>>) @@ (GLFW_KEY_D :> <<1, 0, 0>>) @@
    (GLFW_KEY_SPACE :> <<0, 1, 0>>) @@ (GLFW_KEY_LEFT_SHIFT :> <<0, -1, 0>>)

BoundKeys == DOMAIN velocity_delta

\* PositionalCamera.__init__(scene_data, pose, size, speed); pose is given
\* as its rotation block R and its translation t.  self._pose is bound to
\* the caller's matrix itself, the object "pose", whose contents the pose
\* field holds; _rotation_base is a copy.
init(scene_data, R, t, size, speed) ==
    [cd |-> scene_data,
     pose_obj |-> "pose",
     pose |-> [R |-> R, t |-> t],
     rotation_base |-> R,
     size |-> size,
     speed |-> speed,
     velocity |-> Zero3,
     pressed |-> [key \in BoundKeys |-> FALSE]]

\* mutant: the wrapper hands the key on unchanged
replace_shift_mut(key) == key

\* the body of the _replace_shift wrapper: the key handed to fn
replace_shift(key) ==
    IF key = GLFW_KEY_UNKNOWN THEN GLFW_KEY_LEFT_SHIFT ELSE key

\* mutant: press adds the direction without looking at the flag
press_body_mut(s, key) ==
    IF key \notin DOMAIN s.pressed
    THEN [self |-> s, ret |-> "False"]
    ELSE [self |-> [s EXCEPT
                     !.velocity = VecAdd(@, VecScale(velocity_delta[key], s.speed)),
                     !.pressed[key] = TRUE],
          ret |-> "True"]

\* mutant: press returns whether it changed the state
press_body_changed(s, key) ==
    IF key \notin DOMAIN s.pressed
    THEN [self |-> s, ret |-> "False"]
    ELSE IF ~s.pressed[key]
    THEN [self |-> [s EXCEPT
                     !.velocity = VecAdd(@, VecScale(velocity_delta[key], s.speed)),
                     !.pressed[key] = TRUE],
          ret |-> "True"]
    ELSE [self |-> s, ret |-> "False"]

\* mutant: a press of a held key releases it
press_body_toggle(s, key) ==
    IF key \notin DOMAIN s.pressed
    THEN [self |-> s, ret |-> "False"]
    ELSE IF ~s.pressed[key]
    THEN [self |-> [s EXCEPT
                     !.velocity = VecAdd(@, VecScale(velocity_delta[key], s.speed)),
                     !.pressed[key] = TRUE],
          ret |-> "True"]
    ELSE [self |-> [s EXCEPT
                     !.velocity = VecSub(@, VecScale(velocity_delta[key], s.speed)),
                     !.pressed[key] = FALSE],
          ret |-> "True"]

\* the undecorated body of press
press_body(s, key) ==
    IF key \notin DOMAIN s.pressed
    THEN [self |-> s, ret |-> "False"]
    ELSE IF ~s.pressed[key]
    THEN [self |-> [s EXCEPT
                     !.velocity = VecAdd(@, VecScale(velocity_delta[key], s.speed)),
                     !.pressed[key] = TRUE],
          ret |-> "True"]
    ELSE [self |-> s, ret |-> "True"]

\* PositionalCamera.press(key)
press(s, key) == press_body(s, replace_shift(key))

\* mutant: release subtracts the direction without looking at the flag
release_body_mut(s, key) ==
    IF key \notin DOMAIN s.pressed
    THEN [self |-> s, ret |-> "False"]
    ELSE [self |-> [s EXCEPT
                     !.velocity = VecSub(@, VecScale(velocity_delta[key], s.speed)),
                     !.pressed[key] = FALSE],
          ret |-> "True"]

\* mutant: release clears the flag and leaves the velocity
release_body_keep(s, key) ==
    IF key \notin DOMAIN s.pressed
    THEN [self |-> s, ret |-> "False"]
    ELSE [self |-> [s EXCEPT !.pressed[key] = FALSE], ret |-> "True"]

\* the undecorated body of release
release_body(s, key) ==
    IF key \notin DOMAIN s.pressed
    THEN [self |-> s, ret |-> "False"]
    ELSE IF s.pressed[key]
    THEN [self |-> [s EXCEPT
                     !.velocity = VecSub(@, VecScale(velocity_delta[key], s.speed)),
                     !.pressed[key] = FALSE],
          ret |-> "True"]
    ELSE [self |-> s, ret |-> "True"]

\* PositionalCamera.release(key)
release(s, key) == release_body(s, replace_shift(key))

\* yaw = pi - 2 pi px / W, in quarter turns: 2 - 4 px / W
YawQ(point, size) == 2 - (4 * point[1]) \div size[1]

\* pitch = pi / 2 - pi py / H, in quarter turns: 1 - 2 py / H
PitchQ(point, size) == 1 - (2 * point[2]) \div size[2]

\* the pointer coordinates whose yaw and pitch are whole quarter turns
ExactPoint(point, size) ==
    /\ size[1] # 0 => (4 * point[1]) % size[1] = 0
    /\ size[2] # 0 => (2 * point[2]) % size[2] = 0

\* mutant: motion composes the new angles onto the current rotation block
motion_incremental(s, point) ==
    IF s.size[1] = 0 \/ s.size[2] = 0
    THEN [self |-> s, ret |-> "ZeroDivisionError"]
    ELSE LET yaw_mat == RotY(YawQ(point, s.size))
             pitch_mat == RotX(PitchQ(point, s.size))
         IN  [self |-> [s EXCEPT !.pose.R =
                            MatMul(MatMul(s.pose.R, yaw_mat), pitch_mat)],
              ret |-> "None"]

\* mutant: _rotation_base is a view of the pose (no copy), so that writing
\* the rotation block writes it too
motion_alias(s, point) ==
    IF s.size[1] = 0 \/ s.size[2] = 0
    THEN [self |-> s, ret |-> "ZeroDivisionError"]
    ELSE LET yaw_mat == RotY(YawQ(point, s.size))
             pitch_mat == RotX(PitchQ(point, s.size))
             R == MatMul(MatMul(s.rotation_base, yaw_mat), pitch_mat)
         IN  [self |-> [s EXCEPT !.pose.R = R, !.rotation_base = R],
              ret |-> "None"]

\* mutant: the yaw and pitch matrices are multiplied element by element
\* (* for @)
motion_elementwise(s, point) ==
    IF s.size[1] = 0 \/ s.size[2] = 0
    THEN [self |-> s, ret |-> "ZeroDivisionError"]
    ELSE LET yaw_mat == RotY(YawQ(point, s.size))
             pitch_mat == RotX(PitchQ(point, s.size))
             product == [i \in 1 .. 3 |->
                            [j \in 1 .. 3 |-> yaw_mat[i][j] * pitch_mat[i][j]]]
         IN  [self |-> [s EXCEPT !.pose.R = MatMul(s.rotation_base, product)],
              ret |-> "None"]

\* PositionalCamera.motion(point)
motion(s, point) ==
    IF s.size[1] = 0 \/ s.size[2] = 0
    THEN \* the division raises before anything is assigned
         [self |-> s, ret |-> "ZeroDivisionError"]
    ELSE LET yaw_mat == RotY(YawQ(point, s.size))
             pitch_mat == RotX(PitchQ(point, s.size))
         IN  [self |-> [s EXCEPT !.pose.R =
                            MatMul(MatMul(s.rotation_base, yaw_mat), pitch_mat)],
              ret |-> "None"]

\* mutant: pose applies the displacement whatever the collision query says
pose_noveto(s, dt) ==
    LET dx == MatVec(s.pose.R, VecScale(s.velocity, dt))
    IN  [self |-> [s EXCEPT !.pose.t = VecAdd(@, dx)], ret |-> "pose"]

\* mutant: a vetoed frame also stops the camera
pose_stop(s, dt) ==
    LET dx == MatVec(s.pose.R, VecScale(s.velocity, dt))
    IN  IF ~collision(s.cd, s.pose.t, dx)
        THEN [self |-> [s EXCEPT !.pose.t = VecAdd(@, dx)], ret |-> "pose"]
        ELSE [self |-> [s EXCEPT !.velocity = Zero3], ret |-> "pose"]

\* mutant: the displacement is taken along the rotation of the initial pose
pose_basedir(s, dt) ==
    LET dx == MatVec(s.rotation_base, VecScale(s.velocity, dt))
    IN  IF ~collision(s.cd, s.pose.t, dx)
        THEN [self |-> [s EXCEPT !.pose.t = VecAdd(@, dx)], ret |-> "pose"]
        ELSE [self |-> s, ret |-> "pose"]

\* mutant: pose returns a copy of the matrix
pose_copy(s, dt) ==
    LET dx == MatVec(s.pose.R, VecScale(s.velocity, dt))
    IN  IF ~collision(s.cd, s.pose.t, dx)
        THEN [self |-> [s EXCEPT !.pose.t = VecAdd(@, dx)], ret |-> "copy"]
        ELSE [self |-> s, ret |-> "copy"]

\* PositionalCamera.pose(dt)
pose(s, dt) ==
    LET dx == MatVec(s.pose.R, VecScale(s.velocity, dt))
    IN  IF ~collision(s.cd, s.pose.t, dx)
        THEN [self |-> [s EXCEPT !.pose.t = VecAdd(@, dx)], ret |-> "pose"]
        ELSE [self |-> s, ret |-> "pose"]

\* mutant: resize also resets the orientation
resize_reorient(s, size) ==
    [self |-> [s EXCEPT !.size = size, !.pose.R = s.rotation_base], ret |-> "None"]

\* mutant: resize validates its argument and ignores a size with a zero
\* component
resize_validated(s, size) ==
    IF size[1] > 0 /\ size[2] > 0
    THEN [self |-> [s EXCEPT !.size = size], ret |-> "None"]
    ELSE [self |-> s, ret |-> "None"]

\* PositionalCamera.resize(size)
resize(s, size) == [self |-> [s EXCEPT !.size = size], ret |-> "None"]

----------------------------------------------------------------------------
(* The state machine: construction, then any sequence of calls *)

\* the initial view matrices: identity, and a quarter turn about z
InitRotations == {Identity3, <<<<0, -1, 0>>, <<1, 0, 0>>, <<0, 0, 1>>>>}

Dist(p) == Abs(p[1]) + Abs(p[2]) + Abs(p[3])

\* the observer: the direction it follows (none in Spec), the latest event
\* of that direction with the raw code that delivered it, and, when
\* counting, how many presses and releases of it were delivered and how
\* many of them found the flag in the other state (a press the flag clear,
\* a release the flag set).  When it watches the orientation it keeps the
\* point of the latest motion call that returned and the Viewport Size
\* stored at that call; when it watches the handles it keeps the first
\* value a pose call returned, with the contents of the pose at that time.
Watching(keys, counting, watch) ==
    [keys |-> keys, counting |-> counting, lastev |-> "none",
     presscode |-> {}, relcode |-> {}, presses |-> 0, releases |-> 0,
     toggles |-> 0, watch |-> watch, point |-> {}, msize |-> {},
     returned |-> {}]

Observer(keys, counting) == Watching(keys, counting, "keys")

\* the logical direction a raw code stands for
Normalize(code) == IF code = GLFW_KEY_UNKNOWN THEN GLFW_KEY_LEFT_SHIFT ELSE code

Observe(ev, code) ==
    IF Normalize(code) \notin log.keys
    THEN UNCHANGED log
    ELSE IF ev = "press"
    THEN /\ log.counting => log.presses < MaxEvents
         /\ log' = [log EXCEPT !.lastev = ev, !.presscode = {code},
                               !.presses = IF log.counting THEN @ + 1 ELSE @,
                               !.toggles = IF log.counting
                                              /\ ~self.pressed[Normalize(code)]
                                           THEN @ + 1 ELSE @]
    ELSE /\ log.counting => log.releases < MaxEvents
         /\ log' = [log EXCEPT !.lastev = ev, !.relcode = {code},
                               !.releases = IF log.counting THEN @ + 1 ELSE @,
                               !.toggles = IF log.counting
                                              /\ self.pressed[Normalize(code)]
                                           THEN @ + 1 ELSE @]

ObserveMotion(point) ==
    IF log.watch = "orientation" /\ motion(self, point).ret = "None"
    THEN log' = [log EXCEPT !.point = {point}, !.msize = {self.size}]
    ELSE UNCHANGED log

ObservePose(dt) ==
    IF log.watch = "handles" /\ log.returned = {}
    THEN log' = [log EXCEPT !.returned =
                    {[ref |-> pose(self, dt).ret, seen |-> pose(self, dt).self.pose]}]
    ELSE UNCHANGED log

Construct(scenes, rotations, sizes, speeds) ==
    \E scene_data \in scenes, R \in rotations, size \in sizes, speed \in speeds :
        /\ args = [scene_data |-> scene_data, pose |-> [R |-> R, t |-> Zero3],
                   speed |-> speed]
        /\ self = init(scene_data, R, Zero3, size, speed)
        /\ last = [op |-> "init", ret |-> "None"]

Init ==
    /\ Construct(SceneKinds, InitRotations, Sizes, Speeds)
    /\ log = Observer({}, FALSE)

Call(op, r) ==
    /\ self' = r.self
    /\ last' = [op |-> op, ret |-> r.ret]
    /\ UNCHANGED args

PressKey(key) == Call("press", press(self, key)) /\ Observe("press", key)

ReleaseKey(key) == Call("release", release(self, key)) /\ Observe("release", key)

Press == \E key \in Codes : PressKey(key)

Release == \E key \in Codes : ReleaseKey(key)

Motion ==
    \E px \in PointXs, py \in PointYs :
        /\ ExactPoint(<<px, py>>, self.size)
        /\ Call("motion", motion(self, <<px, py>>))
        /\ ObserveMotion(<<px, py>>)

ResizeTo(sizes) ==
    \E size \in sizes : Call("resize", resize(self, size)) /\ UNCHANGED log

Resize == ResizeTo(Sizes)

Pose ==
    \E dt \in Dts :
        /\ Dist(pose(self, dt).self.pose.t) <= MaxDist
        /\ Call("pose", pose(self, dt))
        /\ ObservePose(dt)

Next == Press \/ Release \/ Motion \/ Resize \/ Pose

Spec == Init /\ [][Next]_vars

\* Key events only, with the observer following and counting the events of
\* one direction.
InitKeys ==
    /\ Construct({"wall"}, {Identity3}, {<<4, 2>>}, Speeds)
    /\ \E key \in BoundKeys : log = Observer({key}, TRUE)

NextKeys == Press \/ Release

SpecKeys == InitKeys /\ [][NextKeys]_vars

\* Presses and releases of one and the same direction only, counted.
InitToggle ==
    /\ Construct({"wall"}, {Identity3}, {<<4, 2>>}, Speeds)
    /\ \E key \in BoundKeys : log = Observer({key}, TRUE)

PressSame == \E key \in Codes : Normalize(key) \in log.keys /\ PressKey(key)

ReleaseSame == \E key \in Codes : Normalize(key) \in log.keys /\ ReleaseKey(key)

NextToggle == PressSame \/ ReleaseSame

SpecToggle == InitToggle /\ [][NextToggle]_vars

\* The scenario of the specification: speed 2, identity pose, viewport
\* (800, 600), no geometry; presses and releases of W and pose calls.
InitScenario ==
    /\ Construct({"empty"}, {Identity3}, {<<800, 600>>}, {2})
    /\ log = Observer({GLFW_KEY_W}, TRUE)

NextScenario == PressSame \/ ReleaseSame \/ Pose

SpecScenario == InitScenario /\ [][NextScenario]_vars

----------------------------------------------------------------------------
(* The claims *)

\* the direction vectors as the specification lists them
Direction(key) ==
    CASE key = GLFW_KEY_W -> <<0, 0, -1>>
      [] key = GLFW_KEY_A -> <<-1, 0, 0>>
      [] key = GLFW_KEY_S -> <<0, 0, 1>>
      [] key = GLFW_KEY_D -> <<1, 0, 0>>
      [] key = GLFW_KEY_SPACE -> <<0, 1, 0>>
      [] key = GLFW_KEY_LEFT_SHIFT -> <<0, -1, 0>>

SixKeys ==
    {GLFW_KEY_W, GLFW_KEY_A, GLFW_KEY_S, GLFW_KEY_D, GLFW_KEY_SPACE,
     GLFW_KEY_LEFT_SHIFT}

Held(key, pressed) == IF pressed[key] THEN Direction(key) ELSE Zero3

\* the sum of the direction vectors of the keys whose flag is true
HeldSum(pressed) ==
    VecAdd(VecAdd(VecAdd(Held(GLFW_KEY_W, pressed), Held(GLFW_KEY_A, pressed)),
                  VecAdd(Held(GLFW_KEY_S, pressed), Held(GLFW_KEY_D, pressed))),
           VecAdd(Held(GLFW_KEY_SPACE, pressed), Held(GLFW_KEY_LEFT_SHIFT, pressed)))

HeldKeys == {key \in DOMAIN self.pressed : self.pressed[key]}

\* the displacement pose(dt) computes in the current state
Displacement(dt) == MatVec(self.pose.R, VecScale(self.velocity, dt))

\* C1: in every reachable state Velocity is speed times the sum of the
\* direction vectors of exactly the bound keys whose pressed flag is true,
\* and so the zero vector when no flag is true.
C1_VelocityIsHeldSum ==
    /\ DOMAIN self.pressed = SixKeys
    /\ self.velocity = VecScale(HeldSum(self.pressed), self.speed)
    /\ HeldKeys = {} => self.velocity = Zero3

\* C1 witness: after presses and a release that cleared a flag, with other
\* calls in between, three keys are still held.
C1_Witness ==
    /\ last = [op |-> "release", ret |-> "True"]
    /\ HeldKeys = {GLFW_KEY_W, GLFW_KEY_D, GLFW_KEY_SPACE}
    /\ self.pose.t # args.pose.t
    /\ self.pose.R # self.rotation_base

\* C2: for every pose(dt) call, with t the translation, R the rotation block
\* and D = R (Velocity dt) before the call: the translation after the call
\* is t when the collision query for t + D reports a collision, and t + D
\* when it reports none; with a query that is always true (the dense scene)
\* the translation never leaves its initial value, and with one that is
\* always false (the empty scene) every call adds D.
C2_CollisionVeto ==
    /\ \A dt \in Dts :
          LET t == self.pose.t
              D == Displacement(dt)
              after == pose(self, dt).self.pose.t
          IN  /\ IF collision(self.cd, t, D) THEN after = t ELSE after = VecAdd(t, D)
              /\ self.cd = "empty" => after = VecAdd(t, D)
    /\ self.cd = "dense" => self.pose.t = args.pose.t

\* C2 witness: the camera has moved, and the pose call just made was vetoed
\* for a nonzero displacement.
C2_Witness ==
    /\ last.op = "pose"
    /\ self.pose.t # args.pose.t
    /\ Displacement(1) # Zero3
    /\ collision(self.cd, self.pose.t, Displacement(1))

\* C3: a press of a bound key whose flag is true and a release of a bound key
\* whose flag is false leave Velocity and every flag unchanged; the flag of
\* a direction is true exactly when the latest press or release event of
\* that direction (after code normalization) was a press.
C3_PressReleaseIdempotent ==
    /\ \A code \in Codes :
          Normalize(code) \in SixKeys =>
              /\ self.pressed[Normalize(code)] =>
                    /\ press(self, code).self.velocity = self.velocity
                    /\ press(self, code).self.pressed = self.pressed
              /\ ~self.pressed[Normalize(code)] =>
                    /\ release(self, code).self.velocity = self.velocity
                    /\ release(self, code).self.pressed = self.pressed
    /\ \A key \in log.keys : self.pressed[key] <=> log.lastev = "press"

\* C3 witness: the followed direction was pressed three times and never
\* released.
C3_Witness ==
    /\ log.presses = 3 /\ log.releases = 0
    /\ last = [op |-> "press", ret |-> "True"]
    /\ \A key \in log.keys : self.pressed[key]
    /\ Cardinality(HeldKeys) >= 2

\* C4: press(code) and release(code) return true exactly when the normalized
\* code is one of the six bound keys, held or not; when they return false
\* nothing of the controller changes.
C4_TrueIffBound ==
    \A code \in Codes :
        LET p == press(self, code)
            r == release(self, code)
            bound == IF Normalize(code) \in SixKeys THEN "True" ELSE "False"
        IN  /\ p.ret = bound
            /\ r.ret = bound
            /\ p.ret = "False" => p.self = self
            /\ r.ret = "False" => r.self = self

\* C4 witness: a press of an unbound code has just returned false while a
\* key is held, and a press of that held key would return true.
C4_Witness ==
    /\ last = [op |-> "press", ret |-> "False"]
    /\ self.pressed[GLFW_KEY_W]
    /\ press(self, GLFW_KEY_W).ret = "True"
    /\ self.pose.R # self.rotation_base

\* C5: in every reachable state press and release with the unknown code
\* return the same value and lead to the same Velocity and flags as with
\* LEFT_SHIFT, so the two codes can replace each other at any place of any
\* event sequence.
C5_UnknownIsLeftShift ==
    /\ press(self, GLFW_KEY_UNKNOWN) = press(self, GLFW_KEY_LEFT_SHIFT)
    /\ release(self, GLFW_KEY_UNKNOWN) = release(self, GLFW_KEY_LEFT_SHIFT)
    /\ press(self, GLFW_KEY_UNKNOWN).ret = "True"
    /\ GLFW_KEY_UNKNOWN \notin DOMAIN self.pressed

\* C5 witness: a press with the unknown code was undone by a release with
\* LEFT_SHIFT.
C5_Witness ==
    /\ log.keys = {GLFW_KEY_LEFT_SHIFT}
    /\ log.presses = 1 /\ log.releases = 1 /\ log.lastev = "release"
    /\ log.presscode = {GLFW_KEY_UNKNOWN} /\ log.relcode = {GLFW_KEY_LEFT_SHIFT}
    /\ ~self.pressed[GLFW_KEY_LEFT_SHIFT]
    /\ self.velocity[2] = 0

\* C6, as stated: after any sequence of presses and releases of one and the
\* same direction on a fresh controller, Velocity is speed times the
\* direction vector if the number of presses minus the number of releases is
\* odd, and zero otherwise.
C6_NetParity ==
    \A key \in log.keys :
        self.velocity =
            IF (log.presses - log.releases) % 2 = 1
            THEN VecScale(Direction(key), self.speed)
            ELSE Zero3

\* C6, amended: after any such sequence Velocity is speed times the
\* direction vector if the sequence ends with a press, which is when the
\* presses that found the flag clear and the releases that found it set are
\* together odd in number, and zero otherwise, however many redundant
\* presses and releases were delivered.
C6_LastEventDecides ==
    \A key \in log.keys :
        /\ self.velocity =
              IF log.lastev = "press"
              THEN VecScale(Direction(key), self.speed)
              ELSE Zero3
        /\ log.lastev = "press" <=> log.toggles % 2 = 1

\* C6 witness: three presses and one release of the direction, ending with
\* redundant presses: the net count is even and the direction contributes.
C6_Witness ==
    /\ log.presses = 3 /\ log.releases = 1 /\ log.toggles = 3
    /\ log.lastev = "press"
    /\ \A key \in log.keys : self.velocity = VecScale(Direction(key), self.speed)

\* RotationBase . RotY(pi - 2 pi px / W) . RotX(pi / 2 - pi py / H)
Orientation(base, point, size) ==
    MatMul(MatMul(base, RotY(2 - (4 * point[1]) \div size[1])),
           RotX(1 - (2 * point[2]) \div size[2]))

Positive(size) == size[1] > 0 /\ size[2] > 0

Points == {<<px, py>> : px \in PointXs, py \in PointYs}

\* C7: whatever calls came before, a motion(point) made with a Viewport
\* Size (W, H) of positive components leaves the rotation block at
\* InitialRotation . RotY(pi - 2 pi px / W) . RotX(pi / 2 - pi py / H), a
\* function of the initial pose, the size and the point alone; and the
\* rotation block right after a motion call is of that form.
C7_OrientationHistoryIndependent ==
    /\ \A point \in Points :
          Positive(self.size) /\ ExactPoint(point, self.size) =>
              motion(self, point).self.pose.R =
                  Orientation(args.pose.R, point, self.size)
    /\ last = [op |-> "motion", ret |-> "None"] =>
          \E point \in Points :
              /\ ExactPoint(point, self.size)
              /\ self.pose.R = Orientation(args.pose.R, point, self.size)

\* C7 witness: a motion call has just set the orientation of a camera that
\* has moved and has keys held.
C7_Witness ==
    /\ last = [op |-> "motion", ret |-> "None"]
    /\ self.size = <<8, 4>>
    /\ self.pose.R = Orientation(args.pose.R, <<2, 0>>, <<8, 4>>)
    /\ self.pose.R # args.pose.R
    /\ self.pose.t # args.pose.t
    /\ HeldKeys # {}

\* C8: a resize call changes the stored Viewport Size and nothing else: the
\* rotation block (so the last pointer coordinate is not re-interpreted),
\* the translation, Velocity, the flags and Rotation Base stay as they were.
C8_ResizeChangesOnlySize ==
    [][last'.op = "resize" =>
          /\ \E size \in Sizes : self' = [self EXCEPT !.size = size]
          /\ self'.pose = self.pose
          /\ self'.velocity = self.velocity
          /\ self'.pressed = self.pressed
          /\ self'.rotation_base = self.rotation_base]_vars

\* C8 witness: after a resize to (8, 4) the rotation block is still the one
\* the point (2, 0) gave under (4, 2), not the one it gives under (8, 4).
C8_Witness ==
    /\ last.op = "resize"
    /\ self.size = <<8, 4>>
    /\ self.pose.R = Orientation(args.pose.R, <<2, 0>>, <<4, 2>>)
    /\ self.pose.R # Orientation(args.pose.R, <<2, 0>>, <<8, 4>>)
    /\ HeldKeys # {}

\* C9: motion, resize and pose calls, vetoed or not, leave Velocity and
\* every pressed flag as they were.
C9_OnlyKeysChangeVelocity ==
    [][last'.op \in {"motion", "resize", "pose"} =>
          /\ self'.velocity = self.velocity
          /\ self'.pressed = self.pressed]_vars

\* C9 witness: a pose call has just been vetoed while S is held, and S
\* still contributes to Velocity.
C9_Witness ==
    /\ last.op = "pose"
    /\ HeldKeys = {GLFW_KEY_S}
    /\ self.velocity = VecScale(Direction(GLFW_KEY_S), self.speed)
    /\ collision(self.cd, self.pose.t, Displacement(1))

\* C10: in every reachable state Rotation Base is the rotation block of the
\* initial pose.
C10_RotationBaseImmutable == self.rotation_base = args.pose.R

\* C10 witness: motion has overwritten the rotation block of the pose.
C10_Witness ==
    /\ last = [op |-> "motion", ret |-> "None"]
    /\ self.pose.R # args.pose.R
    /\ self.rotation_base # self.pose.R

\* the time steps the scenario is read with
ScenarioDts == 0 .. 3

\* C11: with speed 2, identity pose, viewport (800, 600) and no collision:
\* after press(W) Velocity is (0, 0, -2); pose(1) then makes the translation
\* (0, 0, -2); release(W) returns Velocity to (0, 0, 0); and from then on
\* every pose(dt) leaves the translation at (0, 0, -2).
C11_Scenario ==
    /\ log.presses = 1 /\ log.releases = 0 =>
          /\ self.velocity = <<0, 0, -2>>
          /\ self.pose.t = Zero3 => pose(self, 1).self.pose.t = <<0, 0, -2>>
    /\ log.presses = 1 /\ log.releases = 1 /\ log.lastev = "release" =>
          /\ self.velocity = Zero3
          /\ \A dt \in ScenarioDts : pose(self, dt).self.pose.t = self.pose.t
          /\ last.op = "pose" => self.pose.t \in {Zero3, <<0, 0, -2>>}

\* C11 witness: W was pressed once, the camera moved to (0, 0, -2), W was
\* released, and a pose call has been made since.
C11_Witness ==
    /\ log.presses = 1 /\ log.releases = 1 /\ log.lastev = "release"
    /\ last.op = "pose"
    /\ self.pose.t = <<0, 0, -2>>
    /\ self.velocity = Zero3
    /\ self.size = <<800, 600>> /\ self.speed = 2 /\ self.cd = "empty"

\* an operation called twice in a row with the same argument leaves the
\* state and returns the result of calling it once
KeysRepeat ==
    \A code \in Codes :
        /\ press(press(self, code).self, code) = press(self, code)
        /\ release(release(self, code).self, code) = release(self, code)

MotionRepeats ==
    \A point \in Points :
        ExactPoint(point, self.size) =>
            motion(motion(self, point).self, point) = motion(self, point)

ResizeRepeats ==
    \A size \in Sizes :
        resize(resize(self, size).self, size) = resize(self, size)

\* C12, as stated: press, release, motion, resize and pose(dt) are all
\* idempotent on repeat.
C12_AllIdempotent ==
    /\ KeysRepeat
    /\ MotionRepeats
    /\ ResizeRepeats
    /\ \A dt \in Dts : pose(pose(self, dt).self, dt) = pose(self, dt)

\* C12, amended: press, release, motion and resize are idempotent on repeat;
\* pose(dt) returns the same handle each time, and leaves the state of one
\* call exactly when the displacement D is zero or the collision query
\* vetoes the first or the second call: otherwise the second call adds D to
\* the translation again.
C12_IdempotentButPose ==
    /\ KeysRepeat
    /\ MotionRepeats
    /\ ResizeRepeats
    /\ \A dt \in Dts :
          LET once == pose(self, dt)
              twice == pose(once.self, dt)
              D == Displacement(dt)
          IN  /\ twice.ret = once.ret
              /\ twice.self = once.self <=>
                    \/ D = Zero3
                    \/ collision(self.cd, self.pose.t, D)
                    \/ collision(self.cd, VecAdd(self.pose.t, D), D)
              /\ twice.self # once.self =>
                    twice.self.pose.t = VecAdd(VecAdd(self.pose.t, D), D)

\* C12 witness: the camera has just moved with W held in free space, where
\* a second pose(1) moves it again, while a repeated press changes nothing.
C12_Witness ==
    /\ last.op = "pose"
    /\ HeldKeys = {GLFW_KEY_W}
    /\ self.pose.t # args.pose.t
    /\ pose(pose(self, 1).self, 1).self.pose.t # pose(self, 1).self.pose.t
    /\ press(press(self, GLFW_KEY_W).self, GLFW_KEY_W) = press(self, GLFW_KEY_W)

\* Construction with a Viewport Size whose components are both positive,
\* then any sequence of calls.
PositiveSizes == {size \in Sizes : Positive(size)}

InitViewport ==
    /\ Construct({"wall"}, {Identity3}, PositiveSizes, Speeds)
    /\ log = Observer({}, FALSE)

SpecViewport == InitViewport /\ [][Next]_vars

\* C13, as stated: constructed with a positive Viewport Size, the controller
\* keeps both components positive after any sequence of calls, and motion
\* never divides by zero.
C13_SizeStaysPositive ==
    /\ Positive(self.size)
    /\ last.ret # "ZeroDivisionError"

\* motion divides by zero exactly when a component of the stored size is 0,
\* and then changes nothing
MotionRaises ==
    \A point \in Points :
        /\ motion(self, point).ret = "ZeroDivisionError" <=> ~Positive(self.size)
        /\ ~Positive(self.size) => motion(self, point).self = self

\* press, release, motion and pose(dt) leave the Viewport Size
OthersKeepSize ==
    /\ \A code \in Codes :
          /\ press(self, code).self.size = self.size
          /\ release(self, code).self.size = self.size
    /\ \A point \in Points : motion(self, point).self.size = self.size
    /\ \A dt \in Dts : pose(self, dt).self.size = self.size

\* C13, amended: resize stores its argument unvalidated, and no other call
\* changes the Viewport Size; so the stored size is positive exactly as long
\* as the latest size given was, and motion divides by zero (changing
\* nothing) exactly when a component of the stored size is 0.
C13_SizeIsLatestGiven ==
    /\ \A size \in Sizes : resize(self, size).self.size = size
    /\ OthersKeepSize
    /\ MotionRaises
    /\ last.ret = "ZeroDivisionError" =>
          last.op = "motion" /\ ~Positive(self.size)

\* C13 witness: after a motion call that succeeded under the positive size
\* of the construction, a resize stored a zero size and motion raised.
C13_Witness ==
    /\ last.op = "motion"
    /\ last.ret = "ZeroDivisionError"
    /\ ~Positive(self.size)
    /\ self.pose.R # self.rotation_base

\* Construction with a positive Viewport Size, then any sequence of calls
\* that keeps it positive; the observer keeps the point of the latest motion
\* call and the Viewport Size stored when it was made.
InitOrient ==
    /\ Construct({"dense"}, InitRotations, PositiveSizes, Speeds)
    /\ log = Watching({GLFW_KEY_W}, FALSE, "orientation")

NextOrient ==
    PressSame \/ ReleaseSame \/ Motion \/ ResizeTo(PositiveSizes) \/ Pose

SpecOrient == InitOrient /\ [][NextOrient]_vars

\* C14, as stated: after a motion call the rotation block is
\* RotationBase . RotY(yaw) . RotX(pitch) for the latest pointer coordinate
\* and the Viewport Size stored in the current state; before any motion
\* call it is RotationBase.
C14_OrientationOfStoredSize ==
    /\ log.point = {} => self.pose.R = self.rotation_base
    /\ \A point \in log.point :
          ExactPoint(point, self.size) =>
              self.pose.R = Orientation(self.rotation_base, point, self.size)

\* C14, amended: after a motion call the rotation block is
\* RotationBase . RotY(yaw) . RotX(pitch) for the latest pointer coordinate
\* and the Viewport Size that was stored when that motion call was made (a
\* later resize does not re-interpret the pointer); before any motion call
\* it is RotationBase.
C14_OrientationOfSizeAtMotion ==
    /\ log.point = {} => self.pose.R = self.rotation_base
    /\ \A point \in log.point, size \in log.msize :
          self.pose.R = Orientation(self.rotation_base, point, size)

\* C14 witness: motion((2, 0)) was called under the size (4, 2), and a
\* resize to (8, 4) followed; under (8, 4) the same point gives another
\* rotation.
C14_Witness ==
    /\ log.point = {<<2, 0>>}
    /\ log.msize = {<<4, 2>>}
    /\ self.size = <<8, 4>>
    /\ last.op = "resize"
    /\ self.pose.R = Orientation(self.rotation_base, <<2, 0>>, <<4, 2>>)
    /\ self.pose.R # Orientation(self.rotation_base, <<2, 0>>, <<8, 4>>)

\* The collision query on the ramp scene, where every contact count occurs
\* at some probe position: a camera of speed 1 walks the cloud.
MaxContacts == 100

InitProbe ==
    /\ Construct({"ramp"}, {Identity3}, {<<4, 2>>}, {1})
    /\ log = Observer({}, FALSE)

NextProbe == Press \/ Release \/ Pose

SpecProbe == InitProbe /\ [][NextProbe]_vars

\* the probe position of the ramp scene with n contacts
RampProbe(n) == <<n - 48, 0, 0>>

\* C15: the contact cap ceil(threshold * radius) = 50 does not change the
\* collision decision: for every true contact count n, the query (made with
\* the capped count) answers as the uncapped density test n / radius >=
\* threshold does, that is, it reports a collision exactly when n >= 50.
C15_CapKeepsDecision ==
    /\ CeilDiv(Threshold * RadiusNum, RadiusDen) = 50
    /\ \A n \in 0 .. MaxContacts :
          LET dx == VecSub(RampProbe(n), self.pose.t)
          IN  /\ SceneContacts(self.cd, VecAdd(self.pose.t, dx)) = n
              /\ collision(self.cd, self.pose.t, dx) <=>
                    n * RadiusDen >= Threshold * RadiusNum
              /\ collision(self.cd, self.pose.t, dx) <=> n >= 50

\* C15 witness: the camera has walked to where 49 points are in reach, and
\* its next step, to where 50 are, is vetoed.
C15_Witness ==
    /\ last.op = "pose"
    /\ HeldKeys = {GLFW_KEY_D}
    /\ SceneContacts(self.cd, self.pose.t) = 49
    /\ SceneContacts(self.cd, VecAdd(self.pose.t, Displacement(1))) = 50
    /\ collision(self.cd, self.pose.t, Displacement(1))
    /\ pose(self, 1).self = self

Transpose(M) == [i \in 1 .. 3 |-> [j \in 1 .. 3 |-> M[j][i]]]

\* columns of unit length and mutually perpendicular
Orthonormal(M) == MatMul(Transpose(M), M) = Identity3

\* the rotation blocks that one motion call gives from the initial pose
OneMotionAway ==
    {Orientation(args.pose.R, point, size) :
        point \in Points, size \in PositiveSizes}

\* C16: if the rotation block of the initial pose is orthonormal, the
\* rotation block of the pose is orthonormal after any sequence of calls;
\* it is the initial one or one that a single motion call gives from the
\* initial pose, so that nothing accumulates with the number of events.
C16_RotationStaysOrthonormal ==
    Orthonormal(args.pose.R) =>
        /\ Orthonormal(self.pose.R)
        /\ self.pose.R \in {args.pose.R} \cup OneMotionAway
        /\ \A point \in Points :
              ExactPoint(point, self.size) =>
                  Orthonormal(motion(self, point).self.pose.R)

\* C16 witness: a camera constructed a quarter turn about z has been turned
\* by motion calls, the latest looking at (1, 1) of a (4, 2) viewport.
C16_Witness ==
    /\ last.op = "motion"
    /\ args.pose.R # Identity3
    /\ Orthonormal(args.pose.R)
    /\ log.point = {<<1, 1>>}
    /\ log.msize = {<<4, 2>>}
    /\ self.pose.R # args.pose.R
    /\ Orthonormal(self.pose.R)

\* The observer keeps the first value a pose call returned, with the
\* contents of the pose at that time; motion and pose calls follow.
InitHandle ==
    /\ Construct({"empty"}, {Identity3}, PositiveSizes, Speeds)
    /\ log = Watching({GLFW_KEY_W}, FALSE, "handles")

NextHandle ==
    PressSame \/ ReleaseSame \/ Motion \/ ResizeTo(PositiveSizes) \/ Pose

SpecHandle == InitHandle /\ [][NextHandle]_vars

\* what is seen through a returned value: the live pose if it is the
\* controller's matrix, the contents at the time of the return if a copy
Deref(h) == IF h.ref = self.pose_obj THEN self.pose ELSE h.seen

\* C17: the internal Pose is the matrix passed to the constructor, every
\* pose(dt) call returns that same object, and what is seen through a value
\* returned earlier is the controller's current Pose, whatever motion and
\* pose calls came since.
C17_PoseIsLiveHandle ==
    /\ self.pose_obj = "pose"
    /\ \A dt \in Dts : pose(self, dt).ret = self.pose_obj
    /\ \A h \in log.returned :
          /\ h.ref = self.pose_obj
          /\ Deref(h) = self.pose

\* C17 witness: since the first pose call returned, a motion call has
\* turned the camera and a pose call has moved it; the value returned then
\* shows the current pose, not the one of that time.
C17_Witness ==
    /\ last.op = "pose"
    /\ \E h \in log.returned :
          /\ h.seen.R # self.pose.R
          /\ h.seen.t # self.pose.t
          /\ Deref(h) = self.pose

\* C18: pose(dt) never modifies the rotation block, on a blocked frame and
\* on an unblocked one alike, and the displacement it probes and applies is
\* the Velocity mapped by the rotation block as it stands at the call.
C18_PoseKeepsRotation ==
    \A dt \in Dts :
        LET blocked == collision(self.cd, self.pose.t, Displacement(dt))
        IN  /\ pose(self, dt).self.pose.R = self.pose.R
            /\ pose(self, dt).self.rotation_base = self.rotation_base
            /\ blocked => pose(self, dt).self.pose.t = self.pose.t
            /\ ~blocked =>
                  pose(self, dt).self.pose.t =
                      VecAdd(self.pose.t, Displacement(dt))

\* C18 witness: a camera that has moved and has been turned away from its
\* initial rotation is blocked on a frame that the initial rotation would
\* have let through: the Velocity was mapped by the current rotation.
C18_Witness ==
    /\ last.op = "pose"
    /\ self.pose.R # self.rotation_base
    /\ self.pose.t # args.pose.t
    /\ collision(self.cd, self.pose.t, Displacement(1))
    /\ ~collision(self.cd, self.pose.t,
                  MatVec(self.rotation_base, VecScale(self.velocity, 1)))

\* the collision query at a position, with no displacement
Colliding(p) == collision(self.cd, p, Zero3)

\* C19: if the collision query is false at the initial translation, it is
\* false at the current translation after any sequence of calls: a pose(dt)
\* call changes the translation only to the position it probed and found
\* free.
C19_NeverAtCollidingPosition ==
    ~Colliding(args.pose.t) =>
        /\ ~Colliding(self.pose.t)
        /\ \A dt \in Dts :
              pose(self, dt).self.pose.t # self.pose.t =>
                  ~Colliding(pose(self, dt).self.pose.t)

\* C19 witness: a camera that started at a free position has moved, and
\* stands at a free position in front of the wall with the frame into the
\* wall vetoed.
C19_Witness ==
    /\ self.cd = "wall"
    /\ last.op = "pose"
    /\ ~Colliding(args.pose.t)
    /\ self.pose.t # args.pose.t
    /\ ~Colliding(self.pose.t)
    /\ Colliding(VecAdd(self.pose.t, Displacement(1)))
    /\ pose(self, 1).self.pose.t = self.pose.t

====
